---- MODULE Spec2Model ----
(***************************************************************************)
(* Model of hax/handler.py: ConsumerThread, the single thread that pulls  *)
(* messages from the multi-producer Queue and dispatches them to Motr,    *)
(* Consul and the EQ publisher.                                           *)
(*                                                                         *)
(* Producers (q.put) and the owner of the thread (stop) run concurrently  *)
(* with the consumer; every statement of _do_work that reads or writes    *)
(* shared state (q, is_stopped) is a step of its own, so every            *)
(* interleaving of put / stop / pull_msg / sleep / stop check is a        *)
(* behaviour of the model.                                                 *)
(*                                                                         *)
(* Environment: a downstream call either returns or raises an exception   *)
(* that `except Exception` (handler.py:129) catches.                      *)
(***************************************************************************)
EXTENDS Integers, Sequences, FiniteSets

\* ------------------------------------------------------------------ bounds
\* Number of messages the producers enqueue in one behaviour.
MaxMsgs == 3
\* Number of failing invocations of one retried action (the retry loop itself
\* is unbounded).
MaxFails == 2

\* --------------------------------------------------------------- constants
\* progress of the synthetic SnsRepairStatusItem
SnsProgress == 25

VARIABLES
    q,             \* the Queue: sequence of messages, head is the oldest
    is_stopped,    \* ConsumerThread.is_stopped
    pc,            \* position of the consumer thread inside _do_work
    item,          \* local variable `item` of _do_work
    ha_link,       \* local variable `ha_link` of _do_work (Unbound until assigned)
    attempt_count, \* failed invocations inside the running repeat_if_fails wrapper
    result,        \* local variable `result` of _do_work
    reply_to,      \* content written to each reply queue, indexed by its message
    enqueued,      \* number of messages put into q so far (next message id - 1)
    adopted,       \* calls of ffi.adopt_motr_thread()
    shunned,       \* calls of ffi.shun_motr_thread()
    log,           \* events of the dispatch step in progress or last finished, in order
    dispatched,    \* history: ids of the messages whose dispatch began, in order
    last_ep,       \* history: link of the last EntrypointRequest whose dispatch began
    stop_pc,       \* history: where the consumer was when stop() was called
    stop_enq,      \* history: messages enqueued so far when stop() was called in
                   \* the wait loop
    stop_qlen,     \* history: length of q when stop() was called in the wait loop
    empty_seen     \* history: pull_msg returned None after stop() was called

vars == <<q, is_stopped, pc, item, ha_link, attempt_count, result, reply_to,
          enqueued, adopted, shunned, log, dispatched, last_ep, stop_pc, stop_enq,
          stop_qlen, empty_seen>>

\* ------------------------------------------------------------------ values
None == [id |-> 0, kind |-> "None", link |-> "", data |-> "", reply |-> FALSE]
Unbound == "unbound"
Links == {"link1", "link2"}
Data == {"A", "B"}
MessageIdLists == {<<>>, <<"mid">>}

EntrypointRequest(i, l) ==
    [id |-> i, kind |-> "EntrypointRequest", link |-> l, data |-> "", reply |-> FALSE]
ProcessEvent(i, e) ==
    [id |-> i, kind |-> "ProcessEvent", link |-> "", data |-> e, reply |-> FALSE]
HaNvecGetEvent(i, l) ==
    [id |-> i, kind |-> "HaNvecGetEvent", link |-> l, data |-> "", reply |-> FALSE]
BroadcastHAStates(i, s, r) ==
    [id |-> i, kind |-> "BroadcastHAStates", link |-> "", data |-> s, reply |-> r]
StobIoqError(i, f) ==
    [id |-> i, kind |-> "StobIoqError", link |-> "", data |-> f, reply |-> FALSE]
SnsRepairStatus(i) ==
    [id |-> i, kind |-> "SnsRepairStatus", link |-> "", data |-> "", reply |-> TRUE]
Unsupported(i) ==
    [id |-> i, kind |-> "Unsupported", link |-> "", data |-> "", reply |-> FALSE]

\* The messages a producer may create as the i-th message of the behaviour.
Messages(i) ==
    {EntrypointRequest(i, l) : l \in Links}
    \cup {ProcessEvent(i, e) : e \in Data}
    \cup {HaNvecGetEvent(i, "link1")}
    \cup {BroadcastHAStates(i, "A", r) : r \in BOOLEAN}
    \cup {StobIoqError(i, "A")}
    \cup {SnsRepairStatus(i)}
    \cup {Unsupported(i)}

Retried == {"ProcessEvent", "HaNvecGetEvent"}

Outcomes == {"ok", "error"}

Event(e, i, f, l, a, r) ==
    [ev |-> e, id |-> i, fn |-> f, link |-> l, arg |-> a, res |-> r]

\* dump_json(item): the JSON text of the item's fields
dump_json(m) == <<"{", "fid", ":", m.data, "}">>

SnsRepairStatusItems ==
    <<[progress |-> SnsProgress, status |-> "M0_CMS_ACTIVE",
       fid |-> "0x7200000000000001:deadbeef"]>>

\* ------------------------------------------------------------------- Init
Init ==
    /\ q = <<>>
    /\ is_stopped = FALSE
    /\ pc = "start"
    /\ item = None
    /\ ha_link = Unbound
    /\ attempt_count = 0
    /\ result = <<>>
    /\ reply_to = [i \in 1..MaxMsgs |-> <<>>]
    /\ enqueued = 0
    /\ adopted = 0
    /\ shunned = 0
    /\ log = <<>>
    /\ dispatched = <<>>
    /\ last_ep = "none"
    /\ stop_pc = "none"
    /\ stop_enq = 0
    /\ stop_qlen = 0
    /\ empty_seen = FALSE

consumer_vars == <<pc, item, ha_link, attempt_count, result, reply_to,
                   adopted, shunned, log, dispatched, last_ep, empty_seen>>

\* --------------------------------------------------------------- producers
\* q.put(msg) by any producer thread
put ==
    /\ enqueued < MaxMsgs
    /\ \E m \in Messages(enqueued + 1) : q' = Append(q, m)
    /\ enqueued' = enqueued + 1
    /\ UNCHANGED <<is_stopped, stop_pc, stop_enq, stop_qlen>>
    /\ UNCHANGED consumer_vars

\* positions of the consumer inside the dispatch step of a message
DispatchPcs == {"dispatch", "retry_sleep", "retry_call", "reply"}
\* positions inside the wait loop `while item is None`
WaitLoopPcs == {"sleep", "check", "repull"}

\* ConsumerThread.stop(); the history variables record where the call found the
\* consumer: the position inside the wait loop, "dispatch" inside a dispatch
\* step, "other" elsewhere
stop ==
    /\ ~is_stopped
    /\ is_stopped' = TRUE
    /\ stop_pc' = IF pc \in WaitLoopPcs THEN pc
                  ELSE IF pc \in DispatchPcs THEN "dispatch" ELSE "other"
    /\ stop_enq' = IF pc \in WaitLoopPcs THEN enqueued ELSE 0
    /\ stop_qlen' = IF pc \in WaitLoopPcs THEN Len(q) ELSE 0
    /\ UNCHANGED <<q, enqueued>>
    /\ UNCHANGED consumer_vars

\* ---------------------------------------------------------------- consumer
\* ffi.adopt_motr_thread() before the loop
adopt_motr_thread ==
    /\ pc = "start"
    /\ adopted' = adopted + 1
    /\ pc' = "pull"
    /\ UNCHANGED <<q, is_stopped, item, ha_link, attempt_count, result, reply_to,
                   enqueued, shunned, log, dispatched, last_ep, stop_pc, stop_enq, stop_qlen, empty_seen>>

\* the element q.get(block=False) returns
QGetLast(s) == s[Len(s)]
QGet(s) == Head(s)

\* pull_msg() called at position `at` of the loop
pull_msg(at) ==
    /\ pc = at
    /\ IF q = <<>>
       THEN /\ item' = None
            /\ pc' = "sleep"
            /\ empty_seen' = (empty_seen \/ is_stopped)
            /\ UNCHANGED <<q, log, dispatched, last_ep>>
       ELSE /\ item' = QGet(q)
            /\ q' = Tail(q)
            /\ pc' = "dispatch"
            /\ log' = <<Event("got", item'.id, "", "", item', "")>>
            /\ dispatched' = Append(dispatched, item'.id)
            /\ last_ep' = IF item'.kind = "EntrypointRequest" THEN item'.link
                          ELSE last_ep
            /\ UNCHANGED empty_seen
    /\ UNCHANGED <<is_stopped, ha_link, attempt_count, result, reply_to,
                   enqueued, adopted, shunned, stop_pc, stop_enq, stop_qlen>>

\* a loop that reads the stop flag before it dequeues
pull_unless_stopped ==
    IF is_stopped
    THEN /\ pc = "pull"
         /\ pc' = "stopping"
         /\ UNCHANGED <<q, is_stopped, item, ha_link, attempt_count, result, reply_to,
                        enqueued, adopted, shunned, log, dispatched, last_ep, stop_pc, stop_enq,
                        stop_qlen, empty_seen>>
    ELSE pull_msg("pull")

\* item = pull_msg() at the top of an iteration
pull == pull_msg("pull")

\* time.sleep(0.2) in the wait loop
sleep ==
    /\ pc = "sleep"
    /\ pc' = "check"
    /\ UNCHANGED <<q, is_stopped, item, ha_link, attempt_count, result, reply_to,
                   enqueued, adopted, shunned, log, dispatched, last_ep, stop_pc, stop_enq, stop_qlen, empty_seen>>

\* the value `if self.is_stopped` reads
StopIgnored == FALSE
StopAlways == TRUE
StopObserved == is_stopped

\* if self.is_stopped: raise StopIteration(), re-raised by the inner handler
\* and caught by the outer one
check ==
    /\ pc = "check"
    /\ pc' = IF StopObserved THEN "stopping" ELSE "repull"
    /\ UNCHANGED <<q, is_stopped, item, ha_link, attempt_count, result, reply_to,
                   enqueued, adopted, shunned, log, dispatched, last_ep, stop_pc, stop_enq, stop_qlen, empty_seen>>

\* item = pull_msg() at the end of the wait loop
repull == pull_msg("repull")

\* where the consumer goes when a dispatch step is over: `while True`
StopAfterDispatch == IF is_stopped THEN "stopping" ELSE "pull"
NextIteration == "pull"

\* the kinds whose action is wrapped by repeat_if_fails(wait_seconds=5)
DecoratedAll(kind) == TRUE
DecoratedNone(kind) == FALSE
DecoratedNvecOnly(kind) == kind = "HaNvecGetEvent"
Decorated(kind) == kind \in Retried

\* one invocation of fn by the wrapper repeat_if_fails builds: on an exception
\* it logs, sleeps and calls again
wrapper(fn, l, a) ==
    \E r \in Outcomes :
        /\ r = "error" => attempt_count < MaxFails
        /\ log' = Append(log, Event("call", item.id, fn, l, a, r))
        /\ IF r = "ok"
           THEN pc' = NextIteration /\ attempt_count' = 0
           ELSE pc' = "retry_sleep" /\ attempt_count' = attempt_count + 1

\* an undecorated call: an exception reaches `except Exception`, is logged and
\* swallowed
direct(fn, l, a) ==
    /\ \E r \in Outcomes :
        log' = IF r = "ok"
               THEN Append(log, Event("call", item.id, fn, l, a, r))
               ELSE log \o <<Event("call", item.id, fn, l, a, r),
                             Event("swallow", item.id, "", "", "", "")>>
    /\ pc' = NextIteration
    /\ UNCHANGED attempt_count

\* the function a one-call branch invokes for m, the link it is invoked on and
\* its argument
Fn(m) ==
    CASE m.kind = "EntrypointRequest" -> "send_entrypoint_request_reply"
      [] m.kind = "ProcessEvent" -> "update_process_status"
      [] m.kind = "HaNvecGetEvent" -> "ha_nvec_get_reply"
      [] m.kind = "StobIoqError" -> "publish"
      [] OTHER -> ""
LinkOf(m) == IF m.kind \in {"EntrypointRequest", "HaNvecGetEvent"} THEN m.link ELSE ""
\* a payload that carries a sequence number of the consumer
ArgNumbered(m) ==
    CASE m.kind = "ProcessEvent" -> m.data
      [] m.kind = "StobIoqError" -> <<"STOB_IOQ", dump_json(m) \o <<Len(dispatched)>>>>
      [] OTHER -> m.id
Arg(m) ==
    CASE m.kind = "ProcessEvent" -> m.data
      [] m.kind = "StobIoqError" -> <<"STOB_IOQ", dump_json(m)>>
      [] OTHER -> m.id

\* the call of the branch of item: decorated or not
call ==
    IF Decorated(item.kind)
    THEN wrapper(Fn(item), LinkOf(item), Arg(item))
    ELSE direct(Fn(item), LinkOf(item), Arg(item))

\* a branch that keeps the link of the first EntrypointRequest
entrypoint_keeps_first_link ==
    /\ pc = "dispatch"
    /\ item.kind = "EntrypointRequest"
    /\ ha_link' = IF ha_link = Unbound THEN item.link ELSE ha_link
    /\ call
    /\ UNCHANGED <<q, is_stopped, item, result, reply_to, enqueued, adopted,
                   shunned, dispatched, last_ep, stop_pc, stop_enq, stop_qlen,
                   empty_seen>>

\* isinstance(item, EntrypointRequest)
dispatch_EntrypointRequest ==
    /\ pc = "dispatch"
    /\ item.kind = "EntrypointRequest"
    /\ ha_link' = item.link
    /\ call
    /\ UNCHANGED <<q, is_stopped, item, result, reply_to, enqueued, adopted,
                   shunned, dispatched, last_ep, stop_pc, stop_enq, stop_qlen, empty_seen>>

\* isinstance(item, ProcessEvent)
dispatch_ProcessEvent ==
    /\ pc = "dispatch"
    /\ item.kind = "ProcessEvent"
    /\ call
    /\ UNCHANGED <<q, is_stopped, item, ha_link, result, reply_to, enqueued,
                   adopted, shunned, dispatched, last_ep, stop_pc, stop_enq, stop_qlen, empty_seen>>

\* isinstance(item, HaNvecGetEvent)
dispatch_HaNvecGetEvent ==
    /\ pc = "dispatch"
    /\ item.kind = "HaNvecGetEvent"
    /\ call
    /\ UNCHANGED <<q, is_stopped, item, ha_link, result, reply_to, enqueued,
                   adopted, shunned, dispatched, last_ep, stop_pc, stop_enq, stop_qlen, empty_seen>>

\* a retry that puts the failed message back into the mailbox
requeue_on_failure ==
    /\ pc = "retry_sleep"
    /\ q' = Append(q, item)
    /\ pc' = "pull"
    /\ log' = Append(log, Event("wait", item.id, "", "", "", ""))
    /\ UNCHANGED <<is_stopped, item, ha_link, attempt_count, result, reply_to,
                   enqueued, adopted, shunned, dispatched, last_ep, stop_pc, stop_enq,
                   stop_qlen, empty_seen>>

\* time.sleep(wait_seconds) inside the wrapper
retry_sleep ==
    /\ pc = "retry_sleep"
    /\ pc' = "retry_call"
    /\ log' = Append(log, Event("wait", item.id, "", "", "", ""))
    /\ UNCHANGED <<q, is_stopped, item, ha_link, attempt_count, result, reply_to,
                   enqueued, adopted, shunned, dispatched, last_ep, stop_pc, stop_enq, stop_qlen, empty_seen>>

\* the next invocation of the wrapped function, with the same arguments
retry_call ==
    /\ pc = "retry_call"
    /\ wrapper(Fn(item), LinkOf(item), Arg(item))
    /\ UNCHANGED <<q, is_stopped, item, ha_link, result, reply_to, enqueued,
                   adopted, shunned, dispatched, last_ep, stop_pc, stop_enq, stop_qlen, empty_seen>>

\* isinstance(item, BroadcastHAStates): ha_link.broadcast_ha_states(item.states);
\* ha_link is the local the EntrypointRequest branch assigns, reading it
\* unassigned raises UnboundLocalError
dispatch_BroadcastHAStates ==
    /\ pc = "dispatch"
    /\ item.kind = "BroadcastHAStates"
    /\ IF ha_link = Unbound
       THEN /\ log' = Append(log, Event("swallow", item.id, "", "", "", ""))
            /\ pc' = NextIteration
            /\ UNCHANGED result
       ELSE \E r \in Outcomes :
            IF r = "ok"
            THEN /\ \E ids \in MessageIdLists : result' = ids
                 /\ log' = Append(log, Event("call", item.id, "broadcast_ha_states",
                                             ha_link, item.data, r))
                 /\ pc' = IF item.reply THEN "reply" ELSE NextIteration
            ELSE /\ log' = log \o <<Event("call", item.id, "broadcast_ha_states",
                                          ha_link, item.data, r),
                                    Event("swallow", item.id, "", "", "", "")>>
                 /\ pc' = NextIteration
                 /\ UNCHANGED result
    /\ UNCHANGED <<q, is_stopped, item, ha_link, attempt_count, reply_to, enqueued,
                   adopted, shunned, dispatched, last_ep, stop_pc, stop_enq, stop_qlen, empty_seen>>

\* isinstance(item, StobIoqError)
dispatch_StobIoqError ==
    /\ pc = "dispatch"
    /\ item.kind = "StobIoqError"
    /\ call
    /\ UNCHANGED <<q, is_stopped, item, ha_link, result, reply_to, enqueued,
                   adopted, shunned, dispatched, last_ep, stop_pc, stop_enq, stop_qlen, empty_seen>>

\* isinstance(item, SnsRepairStatus): time.sleep(5)
dispatch_SnsRepairStatus ==
    /\ pc = "dispatch"
    /\ item.kind = "SnsRepairStatus"
    /\ pc' = "reply"
    /\ UNCHANGED <<q, is_stopped, item, ha_link, attempt_count, result, reply_to,
                   enqueued, adopted, shunned, log, dispatched, last_ep, stop_pc, stop_enq, stop_qlen, empty_seen>>

\* what item.reply_to holds after item.reply_to.put(v)
PutTwice(ch, v) == [reply_to EXCEPT ![ch] = @ \o <<v, v>>]
Put(ch, v) == [reply_to EXCEPT ![ch] = Append(@, v)]

\* item.reply_to.put(...) of BroadcastHAStates and of SnsRepairStatus
reply ==
    /\ pc = "reply"
    /\ LET v == IF item.kind = "BroadcastHAStates" THEN result
                ELSE SnsRepairStatusItems
       IN /\ reply_to' = Put(item.id, v)
          /\ log' = Append(log, Event("put", item.id, "", "", v, ""))
    /\ pc' = NextIteration
    /\ UNCHANGED <<q, is_stopped, item, ha_link, attempt_count, result, enqueued,
                   adopted, shunned, dispatched, last_ep, stop_pc, stop_enq, stop_qlen, empty_seen>>

\* an else branch that raises after the warning
unsupported_raises ==
    /\ pc = "dispatch"
    /\ item.kind = "Unsupported"
    /\ log' = log \o <<Event("warning", item.id, "", "", "", ""),
                        Event("swallow", item.id, "", "", "", "")>>
    /\ pc' = "pull"
    /\ UNCHANGED <<q, is_stopped, item, ha_link, attempt_count, result, reply_to,
                   enqueued, adopted, shunned, dispatched, last_ep, stop_pc, stop_enq,
                   stop_qlen, empty_seen>>

\* else: logging.warning('Unsupported event type received: %s', item)
dispatch_Unsupported ==
    /\ pc = "dispatch"
    /\ item.kind = "Unsupported"
    /\ log' = Append(log, Event("warning", item.id, "", "", "", ""))
    /\ pc' = NextIteration
    /\ UNCHANGED <<q, is_stopped, item, ha_link, attempt_count, result, reply_to,
                   enqueued, adopted, shunned, dispatched, last_ep, stop_pc, stop_enq, stop_qlen, empty_seen>>

\* the thread leaving without the call
exit_without_shun ==
    /\ pc = "stopping"
    /\ pc' = "stopped"
    /\ UNCHANGED <<q, is_stopped, item, ha_link, attempt_count, result, reply_to,
                   enqueued, adopted, shunned, log, dispatched, last_ep, stop_pc, stop_enq,
                   stop_qlen, empty_seen>>

\* except StopIteration: ffi.shun_motr_thread()
shun_motr_thread ==
    /\ pc = "stopping"
    /\ shunned' = shunned + 1
    /\ pc' = "stopped"
    /\ UNCHANGED <<q, is_stopped, item, ha_link, attempt_count, result, reply_to,
                   enqueued, adopted, log, dispatched, last_ep, stop_pc, stop_enq, stop_qlen, empty_seen>>

Consumer ==
    \/ adopt_motr_thread
    \/ pull
    \/ sleep
    \/ check
    \/ repull
    \/ dispatch_EntrypointRequest
    \/ dispatch_ProcessEvent
    \/ dispatch_HaNvecGetEvent
    \/ retry_sleep
    \/ retry_call
    \/ dispatch_BroadcastHAStates
    \/ dispatch_StobIoqError
    \/ dispatch_SnsRepairStatus
    \/ reply
    \/ dispatch_Unsupported
    \/ shun_motr_thread

Next ==
    \/ put
    \/ stop
    \/ Consumer

Spec == Init /\ [][Next]_vars

\* weak fairness of the consumer thread: the operating system keeps scheduling
\* it, and each of its steps (a sleep, a call, a queue operation) returns
FairSpec == Spec /\ WF_vars(Consumer)

\* ------------------------------------------------------------ vocabulary
\* positions of the wait loop that precede its stop check
BeforeCheckPcs == {"sleep", "check"}
Range(s) == {s[k] : k \in DOMAIN s}
Last(s) == s[Len(s)]
\* the message the events of log belong to
LogMsg == log[1].arg
\* the dispatch step that wrote log is over
LogDone == ~(pc \in DispatchPcs /\ item = LogMsg)
Calls == {k \in DOMAIN log : log[k].ev = "call"}
FailedCalls == {k \in Calls : log[k].res = "error"}

\* ------------------------------------------------------------------- C1
\* C1: the consumer begins the dispatch of the messages in the order they were
\* enqueued (message ids number the enqueues): the ids whose dispatch began are
\* 1, 2, ..., k, the mailbox holds the following ids in order, and the one
\* message in dispatch is the last one that began, every earlier one being over.
C1_FifoDispatch ==
    /\ dispatched = [k \in 1..Len(dispatched) |-> k]
    /\ \A k \in DOMAIN q : q[k].id = Len(dispatched) + k
    /\ Len(dispatched) + Len(q) = enqueued
    /\ pc \in DispatchPcs => item.id = Last(dispatched)

C1_Witness ==
    /\ Len(dispatched) = 2
    /\ pc = "dispatch"
    /\ q # <<>>

\* ------------------------------------------------------------------- C2
\* C2 as stated: when stop() is called while the consumer is inside the wait
\* loop, no message enqueued after that call is dispatched.
C2_StopInWaitLoop ==
    stop_pc \in WaitLoopPcs => \A i \in Range(dispatched) : i <= stop_enq

\* C2 amended: when stop() is called while the consumer is inside the wait loop
\* and has not yet passed the stop check of the current round (it sleeps or is
\* about to read the flag), no message enqueued after that call is dispatched.
C2_StopBeforeCheck ==
    stop_pc \in BeforeCheckPcs => \A i \in Range(dispatched) : i <= stop_enq

C2_Witness ==
    /\ stop_pc \in BeforeCheckPcs
    /\ enqueued > stop_enq
    /\ q # <<>>
    /\ pc = "stopped"

\* ------------------------------------------------------------------- C3
\* stop() was called while the consumer was in the wait loop, the mailbox
\* being empty
StopOnEmptyWait == stop_pc \in WaitLoopPcs /\ stop_qlen = 0
\* the same, the consumer not having passed the stop check of that round
StopOnEmptyWaitBeforeCheck == stop_pc \in BeforeCheckPcs /\ stop_qlen = 0

\* C3 as stated: when stop() is called while the consumer waits on an empty
\* mailbox, the consumer goes from the wait to Stopping and Stopped and is
\* never in a dispatch step again.
C3_StopOnEmptyWaitNeverDispatches ==
    StopOnEmptyWait => pc \in WaitLoopPcs \cup {"stopping", "stopped"}

\* where the consumer can be once it has to leave at the coming stop check,
\* and how many of its steps remain until Stopped
Remaining ==
    CASE pc = "sleep" -> 3
      [] pc = "check" -> 2
      [] pc = "stopping" -> 1
      [] pc = "stopped" -> 0
      [] OTHER -> 4

\* C3 amended: when stop() is called while the consumer waits on an empty
\* mailbox and has not yet passed the stop check of the current round, it is
\* never in a dispatch step nor at a dequeue attempt again: it leaves the wait
\* at that stop check and goes through Stopping to Stopped. Each of its steps
\* moves it one position closer to Stopped, and until Stopped a step of the
\* consumer is enabled, so a consumer thread that keeps being scheduled
\* terminates after at most the one sleep in progress.
C3_StopOnEmptyWaitTerminates ==
    /\ [](StopOnEmptyWaitBeforeCheck =>
            /\ pc \in BeforeCheckPcs \cup {"stopping", "stopped"}
            /\ pc # "stopped" => ENABLED Consumer)
    /\ [][StopOnEmptyWaitBeforeCheck /\ pc' # pc => Remaining' = Remaining - 1]_vars

C3_Witness ==
    /\ StopOnEmptyWaitBeforeCheck
    /\ pc = "stopped"
    /\ shunned = 1

\* ------------------------------------------------------------------- C4
\* the events that end a dispatch step
Completed(l) ==
    \/ Last(l).ev \in {"swallow", "put", "warning"}
    \/ Last(l).ev = "call" /\ Last(l).res = "ok"

\* C4: the stop flag is read only at the stop check of the wait loop. From a
\* position inside a dispatch step the consumer moves only to another position
\* of the same step, with the same message, or to the next iteration once the
\* step is complete (for a retried action: once an invocation succeeded),
\* whether or not stop() was called meanwhile; it enters Stopping only from the
\* stop check.
C4_StopOnlyWhileWaiting ==
    [][/\ pc \in DispatchPcs =>
            /\ pc' \in DispatchPcs \cup {"pull"}
            /\ item' = item
            /\ (pc' = "pull" => Completed(log') /\ log'[1].arg = item)
       /\ (pc' = "stopping" /\ pc # "stopping") => (pc = "check" /\ is_stopped)
      ]_vars

C4_Witness ==
    /\ stop_pc = "dispatch"
    /\ dispatched = <<1>>
    /\ pc = "pull"
    /\ Len(log) = 4
    /\ Last(log).ev = "call"
    /\ Last(log).res = "ok"

\* ------------------------------------------------------------------- C5
\* C5 as stated: once stop() has been called the consumer begins the dispatch
\* of no further message.
C5_NoDispatchAfterStop ==
    [][is_stopped => dispatched' = dispatched]_vars

\* C5 amended: once stop() has been called and a dequeue attempt made after the
\* call has found the mailbox empty, the consumer begins the dispatch of no
\* further message, whatever is enqueued afterwards (the messages its dequeue
\* attempts find before that are dispatched, each to completion).
C5_NoDispatchAfterStopAndEmpty ==
    [][empty_seen => /\ dispatched' = dispatched
                     /\ pc' \in BeforeCheckPcs \cup {"stopping", "stopped"}
                     /\ empty_seen']_vars

C5_Witness ==
    /\ empty_seen
    /\ stop_pc = "dispatch"
    /\ enqueued > Len(dispatched)
    /\ q # <<>>
    /\ pc = "stopped"

\* ------------------------------------------------------------------- C6
\* C6: the events of the dispatch step of a ProcessEvent or HaNvecGetEvent are
\* got, call, wait, call, ..., wait, call: every call invokes the function of
\* the message with the argument of the message, every call but the last fails,
\* exactly one wait separates two consecutive calls, and the step is over only
\* when the last call succeeded: N failures give N + 1 invocations. The log
\* starts afresh at every dequeue, so no other message is dequeued or
\* dispatched between the first and the last invocation.
C6_RetrySequence ==
    (log # <<>> /\ LogMsg.kind \in Retried) =>
        /\ log[1].ev = "got"
        /\ \A k \in 2..Len(log) :
              IF k % 2 = 0
              THEN /\ log[k].ev = "call"
                   /\ log[k].id = LogMsg.id
                   /\ log[k].fn = Fn(LogMsg)
                   /\ log[k].arg = Arg(LogMsg)
                   /\ log[k].link = LinkOf(LogMsg)
                   /\ (log[k].res = "ok" <=> (k = Len(log) /\ LogDone))
              ELSE /\ log[k].ev = "wait"
                   /\ log[k].id = LogMsg.id
                   /\ log[k - 1].res = "error"
        /\ LogDone => (Len(log) >= 2 /\ Len(log) % 2 = 0)
        /\ LogDone => Cardinality(Calls) = Cardinality(FailedCalls) + 1
        /\ ~LogDone => Cardinality(FailedCalls) = attempt_count

\* ProcessEvent(A) failed once and then succeeded, ProcessEvent(B) is next
C6_Witness ==
    /\ Len(log) = 4
    /\ LogMsg = ProcessEvent(1, "A")
    /\ log[2].res = "error"
    /\ log[3].ev = "wait"
    /\ log[4].res = "ok"
    /\ q # <<>>
    /\ Head(q) = ProcessEvent(2, "B")

\* ------------------------------------------------------------------- C7
\* C7: the consumer leaves the dispatch step of a ProcessEvent or
\* HaNvecGetEvent only by a successful invocation of its action; a failed
\* invocation keeps it in the step, on the same message, and the mailbox is
\* not touched by the step.
C7_RetriedNeverDropped ==
    [][(pc \in DispatchPcs /\ item.kind \in Retried) =>
          /\ item' = item
          /\ pc' \notin DispatchPcs =>
                /\ pc' = "pull"
                /\ pc \in {"dispatch", "retry_call"}
                /\ Last(log').ev = "call"
                /\ Last(log').res = "ok"
          /\ (log' # log /\ Last(log').ev = "call" /\ Last(log').res = "error") =>
                pc' = "retry_sleep"
          /\ pc = "retry_sleep" => pc' \in {"retry_sleep", "retry_call"}
          /\ pc' \in DispatchPcs => \A k \in 2..Len(log') : log'[k].res # "ok"
      ]_vars

C7_Witness ==
    /\ Len(log) = 6
    /\ LogMsg.kind = "HaNvecGetEvent"
    /\ log[2].res = "error"
    /\ log[4].res = "error"
    /\ log[6].res = "ok"
    /\ pc = "pull"

\* ------------------------------------------------------------------- C8
\* C8 as stated: once the dispatch step of a BroadcastHAStates message is over
\* (the broadcast call, if made, not having raised): with a reply queue
\* attached, the list the broadcast call returned has been put into that queue
\* exactly once, after the call; without one, nothing was put and no exception
\* was raised.
C8_BroadcastReplyOnce ==
    (/\ log # <<>>
     /\ LogMsg.kind = "BroadcastHAStates"
     /\ LogDone
     /\ FailedCalls = {}) =>
        IF LogMsg.reply
        THEN /\ Len(reply_to[LogMsg.id]) = 1
             /\ Len(log) = 3
             /\ log[2].ev = "call" /\ log[2].fn = "broadcast_ha_states"
             /\ log[3].ev = "put" /\ log[3].arg = reply_to[LogMsg.id][1]
        ELSE /\ reply_to[LogMsg.id] = <<>>
             /\ \A k \in DOMAIN log : log[k].ev # "swallow"

\* ------------------------------------------------------------------- C9
\* C9: every reply queue holds at most one written value, a written queue
\* belongs to a message whose dispatch began, and a write happens only at the
\* put of the dispatch step of the message that carries the queue.
C9_ReplyWrittenAtMostOnce ==
    /\ [](\A ch \in DOMAIN reply_to :
            /\ Len(reply_to[ch]) <= 1
            /\ reply_to[ch] # <<>> => ch \in Range(dispatched))
    /\ [][reply_to' # reply_to =>
            /\ pc = "reply"
            /\ item.reply
            /\ item.kind \in {"BroadcastHAStates", "SnsRepairStatus"}
            /\ item.id = Last(dispatched)
            /\ reply_to[item.id] = <<>>
            /\ Len(reply_to'[item.id]) = 1
            /\ \A ch \in DOMAIN reply_to : ch # item.id => reply_to'[ch] = reply_to[ch]
         ]_vars

C9_Witness ==
    /\ \E a, b \in DOMAIN reply_to :
          /\ a # b
          /\ Len(reply_to[a]) = 1
          /\ Len(reply_to[b]) = 1
    /\ pc = "stopped"

\* ------------------------------------------------------------------ C10
\* C10: when the action of a message that is not retried raises, the exception
\* is swallowed as the last event of the dispatch step, the action has been
\* invoked once and is not invoked again, no wait follows, the message is not
\* put back into the mailbox, the stop flag is untouched, and the consumer is
\* at the top of the loop, where a dequeue attempt that finds a message begins
\* the dispatch of the head of the mailbox.
C10_FailureSwallowed ==
    /\ []((log # <<>> /\ LogMsg.kind \notin Retried) =>
            /\ Cardinality(Calls) <= 1
            /\ \A k \in DOMAIN log :
                  /\ log[k].ev # "wait"
                  /\ log[k].ev = "swallow" => (k = Len(log) /\ LogDone))
    /\ [](\A k \in DOMAIN q : q[k].id \notin Range(dispatched))
    /\ [][(/\ pc \in DispatchPcs
           /\ item.kind \notin Retried
           /\ log' # log
           /\ Last(log').ev = "swallow") =>
              /\ pc' = "pull"
              /\ q' = q
              /\ is_stopped' = is_stopped
              /\ shunned' = shunned
         ]_vars
    /\ [][(pc = "pull" /\ pc' # pc /\ q # <<>>) =>
              /\ pc' = "dispatch"
              /\ item' = Head(q)
              /\ q' = Tail(q)
         ]_vars

C10_Witness ==
    /\ log # <<>>
    /\ LogMsg.kind = "EntrypointRequest"
    /\ Last(log).ev = "swallow"
    /\ Len(log) = 3
    /\ log[2].res = "error"
    /\ pc = "pull"
    /\ q # <<>>

C14_PublishOnce ==
    (log # <<>> /\ LogMsg.kind = "StobIoqError") =>
        /\ \A k \in DOMAIN log : log[k].ev \in {"got", "call", "swallow"}
        /\ Calls \subseteq {2}
        /\ LogDone <=> Calls = {2}
        /\ \A k \in Calls :
            /\ log[k].fn = "publish"
            /\ log[k].arg = <<"STOB_IOQ", dump_json(StobIoqError(0, LogMsg.data))>>
        /\ Len(log) = (IF FailedCalls # {} THEN 3 ELSE 1 + Cardinality(Calls))
        /\ Len(log) = 3 => log[3].ev = "swallow"
        /\ attempt_count = 0

C14_Witness ==
    /\ Len(log) = 3
    /\ LogMsg.kind = "StobIoqError"
    /\ log[2].res = "error"
    /\ Len(dispatched) = 2
    /\ pc = "pull"

\* ------------------------------------------------------------------ C15
\* the state of the consumer: Waiting from the start of the thread to a
\* successful dequeue, Dispatching from the dequeue to the end of the branch of
\* the message, Stopping once StopIteration is raised, Stopped after
\* shun_motr_thread
State ==
    CASE pc \in DispatchPcs -> "Dispatching"
      [] pc = "stopping" -> "Stopping"
      [] pc = "stopped" -> "Stopped"
      [] OTHER -> "Waiting"

C16_DequeuedIsDispatched ==
    /\ [](pc \in BeforeCheckPcs => item = None)
    /\ [](pc \in DispatchPcs => (item # None /\ ENABLED Consumer))
    /\ [][(pc \in {"pull", "repull"} /\ q # <<>> /\ pc' # pc) =>
              /\ pc' = "dispatch"
              /\ item' = Head(q)
              /\ dispatched' = Append(dispatched, Head(q).id)]_vars
    /\ [][(pc' = "sleep" /\ pc # "sleep") => (pc \in {"pull", "repull"} /\ q = <<>>)]_vars
    /\ [][(pc' = "check" /\ pc # "check") => pc = "sleep"]_vars
    /\ [][(pc' = "stopping" /\ pc # "stopping") =>
              (pc = "check" /\ item = None /\ is_stopped)]_vars

C16_Witness ==
    /\ stop_pc = "repull"
    /\ stop_enq = 0
    /\ is_stopped
    /\ Len(dispatched) = 3
    /\ pc = "dispatch"
    /\ ~empty_seen

\* ------------------------------------------------------------------ C17
\* C17: no message is dispatched twice and no dispatched message is in the
\* mailbox; the mailbox changes only by a producer appending a message with a
\* fresh id or by the consumer removing its head, and the consumer removes the
\* head only outside a dispatch step, when the step of the previous message is
\* over; during a dispatch step, its failures and retries included, the message
\* in hand stays the same and the mailbox only grows.
C17_DispatchedAtMostOnce ==
    /\ [](/\ \A j, k \in DOMAIN dispatched : dispatched[j] = dispatched[k] => j = k
          /\ \A j, k \in DOMAIN q : q[j].id = q[k].id => j = k
          /\ \A k \in DOMAIN q : q[k].id \notin Range(dispatched)
          /\ pc \in DispatchPcs => \A k \in DOMAIN q : q[k].id # item.id)
    /\ [][q' # q =>
            \/ /\ q # <<>> /\ q' = Tail(q)
               /\ dispatched' = Append(dispatched, Head(q).id)
               /\ pc \in {"pull", "repull"}
               /\ log # <<>> => LogDone
            \/ /\ \E m \in Messages(enqueued + 1) : q' = Append(q, m)
               /\ enqueued' = enqueued + 1
               /\ \A i \in Range(dispatched) : i <= enqueued
               /\ UNCHANGED <<dispatched, item, pc>>
         ]_vars
    /\ [][dispatched' # dispatched => (q # <<>> /\ q' = Tail(q))]_vars
    /\ [][(pc \in DispatchPcs /\ pc' \in DispatchPcs) => item' = item]_vars

C17_Witness ==
    /\ pc = "retry_call"
    /\ attempt_count = MaxFails
    /\ Len(dispatched) = 2
    /\ q # <<>>
    /\ is_stopped

\* ------------------------------------------------------------------ C18
\* C18: every broadcast_ha_states call of the dispatch step of a
\* BroadcastHAStates message is made on the link of the last EntrypointRequest
\* whose dispatch began before it; when there is none the step consists of the
\* swallowed failure alone: no call, no put, the consumer goes to the top of the
\* loop, and the reply queue of the message stays empty for ever, since a reply
\* queue is written only by the reply step of its own message.
C18_BroadcastUsesLastEntrypointLink ==
    /\ []((log # <<>> /\ LogMsg.kind = "BroadcastHAStates") =>
            IF last_ep = "none"
            THEN /\ Len(log) <= 2
                 /\ LogDone <=> Len(log) = 2
                 /\ Len(log) = 2 => log[2].ev = "swallow"
                 /\ Len(reply_to[LogMsg.id]) = 0
            ELSE /\ Cardinality(Calls) <= 1
                 /\ \A k \in Calls : /\ log[k].fn = "broadcast_ha_states"
                                     /\ log[k].link = last_ep
                                     /\ log[k].arg = LogMsg.data
                 /\ LogDone => Cardinality(Calls) = 1)
    /\ [][(pc = "dispatch" /\ item.kind = "BroadcastHAStates" /\ last_ep = "none"
           /\ pc' # pc) => pc' = "pull"]_vars
    /\ [][\A i \in 1..MaxMsgs :
            Len(reply_to'[i]) # Len(reply_to[i]) =>
                /\ pc = "reply"
                /\ i = item.id
                /\ ~(item.kind = "BroadcastHAStates" /\ last_ep = "none")]_vars

C18_Witness ==
    /\ Len(dispatched) = 3
    /\ LogMsg.kind = "BroadcastHAStates"
    /\ Len(log) >= 2
    /\ log[2].ev = "call"
    /\ log[2].link = "link2"
    /\ pc = "reply"

\* ------------------------------------------------------------------ C19
\* positions inside the wrapper of a retried action after a failed call
RetryPcs == {"retry_sleep", "retry_call"}

\* C19: under weak fairness of the consumer's steps, once the stop flag is set
\* the consumer eventually is Stopped with shun_motr_thread called once (the
\* producers enqueue finitely many messages and a retried action fails finitely
\* often); conversely the consumer leaves the retries of an action only by a
\* successful call, which returns it to the top of the loop: as long as no call
\* succeeds it stays there, whatever the stop flag is.
C19_ShutdownLiveness ==
    /\ is_stopped ~> (pc = "stopped" /\ shunned = 1)
    /\ [][(pc \in RetryPcs /\ pc' \notin RetryPcs) =>
              /\ pc' = "pull"
              /\ Last(log').ev = "call"
              /\ Last(log').res = "ok"]_vars
    /\ [](pc \in RetryPcs => (item.kind \in Retried /\ shunned = 0))

C19_Witness ==
    /\ pc = "stopped"
    /\ shunned = 1
    /\ stop_pc = "dispatch"
    /\ enqueued = MaxMsgs
    /\ q = <<>>
    /\ Cardinality(FailedCalls) = MaxFails
    /\ Last(log).res = "ok"

====
